---- MODULE Spec2Model ----
(***************************************************************************)
(* MetaView (src/src/main.rs): a window onto which a PNG file is dropped   *)
(* and whose child EDIT control then shows the file's tEXt chunks.         *)
(*                                                                         *)
(* Two parts are modelled:                                                 *)
(*   - get_png_metadata, a pure function of the file's content, checked    *)
(*     under ExtractSpec (the file is drawn from Files);                   *)
(*   - main / create_window / main_loop / wndproc, the window's life,      *)
(*     checked under Spec (and under FairSpec for liveness).               *)
(*                                                                         *)
(* Strings are sequences of characters; a character is a TLA+ string.      *)
(* The platform (Win32) is the environment: it may call the window         *)
(* procedure with any message while the window handle is valid.            *)
(***************************************************************************)
EXTENDS Integers, Sequences, FiniteSets, TLC

VARIABLES
    file,        \* ExtractSpec: the file get_png_metadata is applied to
    result,      \* ExtractSpec: what get_png_metadata returned
    pc,          \* position of main(): start, creating, loop, exit_ok, exit_err
    hwnd,        \* the owning window: none, valid, destroying, gone
    userdata,    \* the window's GWLP_USERDATA slot: null or app
    app,         \* the App struct of main(): [hedit]
    edit,        \* the child EDIT control: [exists, text, x, y, w, h, font]
    hfont,       \* the font created by WM_CREATE: none or allocated
    dropTarget,  \* whether DragAcceptFiles(hwnd, true) has been called
    queue,       \* the thread's queue of posted messages
    quit,        \* whether PostQuitMessage has been called
    last         \* record of the latest call of wndproc

vars == <<file, result, pc, hwnd, userdata, app, edit, hfont, dropTarget,
          queue, quit, last>>

winvars == <<pc, hwnd, userdata, app, edit, hfont, dropTarget, queue, quit, last>>

----------------------------------------------------------------------------
(* Bounds *)

\* Longest text of a chunk of the files of Files.
MaxChunkText == 1

\* Most chunks of a file of Files.
MaxChunks == 3

\* Longest text of the chunk of a file of TextFiles.
MaxTextLen == 3

MaxPaths == 2

MaxQueue == 2

----------------------------------------------------------------------------
(* Files *)

SeqsUpTo(S, n) == UNION {[1..k -> S] : k \in 0..n}

\* Characters of a chunk's text: an ordinary one, carriage return, line feed.
Chars == {"x", "CR", "LF"}

Texts == SeqsUpTo(Chars, MaxChunkText)

Keywords == {<<"A">>, <<"B">>}

Chunk(t, k, s) == [type |-> t, keyword |-> k, text |-> s]

\* tEXt: the uncompressed Latin-1 text chunk.
TextChunks == {Chunk("tEXt", k, s) : k \in Keywords, s \in Texts}

\* zTXt (compressed) and iTXt (international) text chunks, the first image
\* data chunk IDAT, and BAD: a chunk that is structurally malformed (invalid
\* length, checksum mismatch).
OtherChunks == {Chunk("zTXt", <<"A">>, <<"x">>), Chunk("iTXt", <<"A">>, <<"x">>),
                Chunk("IDAT", <<>>, <<>>), Chunk("BAD", <<>>, <<>>)}

Chunks == TextChunks \cup OtherChunks

\* A file: whether it can be opened and read, whether its 8-byte signature
\* is the PNG signature, and its chunks in file order. A file that ends
\* without IDAT is truncated.
PngFile(sig, cs) == [status |-> "ok", sigOk |-> sig, chunks |-> cs]

\* A path that cannot be opened.
MissingFile == [status |-> "missing", sigOk |-> FALSE, chunks |-> <<>>]

\* A file that can be opened and whose reads fail.
UnreadableFile == [status |-> "unreadable", sigOk |-> FALSE, chunks |-> <<>>]

Files == {MissingFile, UnreadableFile} \cup
         {PngFile(sig, cs) : sig \in BOOLEAN, cs \in SeqsUpTo(Chunks, MaxChunks)}

\* Well-formed files of one tEXt chunk followed by the image data, with the
\* longer texts that line-ending normalization is checked on.
TextFiles == {PngFile(TRUE, <<Chunk("tEXt", k, s), Chunk("IDAT", <<>>, <<>>)>>) :
                 k \in Keywords, s \in SeqsUpTo(Chars, MaxTextLen)}

NoFile == [status |-> "none", sigOk |-> FALSE, chunks |-> <<>>]

----------------------------------------------------------------------------
(* get_png_metadata *)

Ok(s) == [kind |-> "Ok", text |-> s]

\* An error and its Display text.
Err(k, d) == [kind |-> k, text |-> d]

NoResult == [kind |-> "None", text |-> <<>>]

\* Mutant of FileOpen: the failure to open is swallowed.
FileOpen_Swallowed(f) == Ok(<<>>)

\* File::open(filename)?
FileOpen(f) ==
    IF f.status = "missing" THEN Err("Io", <<"NotFound">>) ELSE Ok(<<>>)

\* Mutant of ReadChunks: a malformed chunk ends the reading with what was read.
RECURSIVE ReadChunks_Lenient(_, _)
ReadChunks_Lenient(cs, acc) ==
    IF cs = <<>> THEN [kind |-> "Format", text |-> <<"UnexpectedEof">>, info |-> <<>>]
    ELSE IF Head(cs).type \in {"BAD", "IDAT"} THEN [kind |-> "Ok", text |-> <<>>, info |-> acc]
    ELSE IF Head(cs).type = "tEXt" THEN ReadChunks_Lenient(Tail(cs), Append(acc, Head(cs)))
    ELSE ReadChunks_Lenient(Tail(cs), acc)

\* png::Decoder::read_info reads the signature and then every chunk up to the
\* first IDAT chunk; its Info holds the tEXt chunks met on the way, in file
\* order. acc is info.uncompressed_latin1_text so far. A read that fails is
\* the decoder's IoError, a signature or a chunk that is wrong its Format
\* error.
RECURSIVE ReadChunks(_, _)
ReadChunks(cs, acc) ==
    IF cs = <<>> THEN [kind |-> "Format", text |-> <<"UnexpectedEof">>, info |-> <<>>]
    ELSE IF Head(cs).type = "BAD"
         THEN [kind |-> "Format", text |-> <<"InvalidChunk">>, info |-> <<>>]
    ELSE IF Head(cs).type = "IDAT" THEN [kind |-> "Ok", text |-> <<>>, info |-> acc]
    ELSE IF Head(cs).type = "tEXt" THEN ReadChunks(Tail(cs), Append(acc, Head(cs)))
    ELSE ReadChunks(Tail(cs), acc)

read_info(f) ==
    IF f.status = "unreadable"
    THEN [kind |-> "Io", text |-> <<"ReadFailed">>, info |-> <<>>]
    ELSE IF ~f.sigOk
    THEN [kind |-> "Format", text |-> <<"InvalidSignature">>, info |-> <<>>]
    ELSE ReadChunks(f.chunks, <<>>)

\* str::replace("\n", "\r\n")
RECURSIVE replace(_)
replace(s) ==
    IF s = <<>> THEN <<>>
    ELSE (IF Head(s) = "LF" THEN <<"CR", "LF">> ELSE <<Head(s)>>) \o replace(Tail(s))

\* One pass of the for loop: the block pushed for a chunk. "[[" and "]]"
\* stand for the brackets U+3010 and U+3011.
PushBlock(ret, chunk) ==
    ret \o <<"[[">> \o chunk.keyword \o <<"]]", "CR", "LF">>
        \o replace(chunk.text) \o <<"CR", "LF", "CR", "LF">>

RECURSIVE ForChunks(_, _)
ForChunks(ret, cs) ==
    IF cs = <<>> THEN ret ELSE ForChunks(PushBlock(ret, Head(cs)), Tail(cs))

get_png_metadata(f) ==
    IF FileOpen(f).kind # "Ok" THEN FileOpen(f)
    ELSE IF read_info(f).kind # "Ok" THEN Err(read_info(f).kind, read_info(f).text)
    ELSE Ok(ForChunks(<<>>, read_info(f).info))

----------------------------------------------------------------------------
(* ExtractSpec: get_png_metadata applied to every file of Files *)

InitWin ==
    /\ pc = "start"
    /\ hwnd = "none"
    /\ userdata = "null"
    /\ app = [hedit |-> "NULL"]
    /\ edit = [exists |-> "none", text |-> <<>>, x |-> 0, y |-> 0, w |-> 0, h |-> 0,
               font |-> FALSE]
    /\ hfont = "none"
    /\ dropTarget = FALSE
    /\ queue = <<>>
    /\ quit = FALSE
    /\ last = [tick |-> FALSE,
               msg |-> [message |-> "none", hdrop |-> <<>>, lparam |-> <<0, 0, 0, 0>>],
               some |-> FALSE, extracted |-> <<>>, result |-> NoResult, ops |-> <<>>,
               defproc |-> FALSE]

ExtractInit ==
    /\ \E sig \in BOOLEAN, n \in 0..MaxChunks :
          \E cs \in [1..n -> Chunks] : file \in {MissingFile, UnreadableFile, PngFile(sig, cs)}
    /\ result = NoResult
    /\ InitWin

Extract ==
    /\ result = NoResult
    /\ result' = get_png_metadata(file)
    /\ UNCHANGED <<file, winvars>>

ExtractNext == Extract

ExtractSpec == ExtractInit /\ [][ExtractNext]_vars

TextInit ==
    /\ file \in TextFiles
    /\ result = NoResult
    /\ InitWin

TextSpec == TextInit /\ [][ExtractNext]_vars

----------------------------------------------------------------------------
(* Messages *)

\* The files that are dropped on the window: a path that cannot be opened,
\* a file that cannot be read, a file with a wrong signature, a PNG file
\* without text chunks and a PNG file with one.
BadSignatureFile == PngFile(FALSE, <<Chunk("IDAT", <<>>, <<>>)>>)

EmptyPng == PngFile(TRUE, <<Chunk("IDAT", <<>>, <<>>)>>)

TitlePng == PngFile(TRUE, <<Chunk("tEXt", <<"A">>, <<"LF">>), Chunk("IDAT", <<>>, <<>>)>>)

DropFiles == {MissingFile, UnreadableFile, BadSignatureFile, EmptyPng, TitlePng}

\* An LPARAM is 64 bits wide: four 16-bit words, the lowest first.
Lparams == {<<0, 0, 0, 0>>, <<800, 600, 0, 0>>, <<65535, 65535, 1, 0>>}

Msg(t, d, l) == [message |-> t, hdrop |-> d, lparam |-> l]

SizeMsgs == {Msg("WM_SIZE", <<>>, l) : l \in Lparams}

\* The paths that follow the first one of a drop: a PNG file whose report
\* differs from that of every file of DropFiles.
RestFiles == {PngFile(TRUE, <<Chunk("tEXt", <<"B">>, <<"x">>), Chunk("IDAT", <<>>, <<>>)>>)}

\* The HDROP of a WM_DROPFILES (its wparam): the list of the dropped paths.
Drops == {<<>>} \cup
         {<<f>> \o rest : f \in DropFiles, rest \in SeqsUpTo(RestFiles, MaxPaths - 1)}

DropMsgs == {Msg("WM_DROPFILES", d, <<0, 0, 0, 0>>) : d \in Drops}

\* Any message that wndproc has no arm for (WM_PAINT, WM_CLOSE, ...).
OtherMsg == Msg("WM_OTHER", <<>>, <<0, 0, 0, 0>>)

CreateMsg == Msg("WM_CREATE", <<>>, <<0, 0, 0, 0>>)

DestroyMsg == Msg("WM_DESTROY", <<>>, <<0, 0, 0, 0>>)

Messages == SizeMsgs \cup DropMsgs \cup {OtherMsg}

\* The messages that are posted to the queue: a message without an arm, a
\* drop of a PNG file and a drop of a path that cannot be opened. (Send
\* brings every message of Messages.)
PostedMessages == {OtherMsg,
                   Msg("WM_DROPFILES", <<TitlePng>>, <<0, 0, 0, 0>>),
                   Msg("WM_DROPFILES", <<MissingFile>>, <<0, 0, 0, 0>>)}

----------------------------------------------------------------------------
(* The calls wndproc makes on the child EDIT control *)

\* x.0 as u32: the two low words.
as_u32(x) == <<x[1], x[2]>>

\* Mutant of loword: the low word is read as a signed 16-bit value.
loword_Signed(x) ==
    IF as_u32(x)[1] % 65536 >= 32768 THEN (as_u32(x)[1] % 65536) - 65536
    ELSE as_u32(x)[1] % 65536

\* loword!: ((x.0 as u32) & 0xffff) as u16
loword(x) == as_u32(x)[1] % 65536

\* hiword!: ((x.0 as u32) >> 16) as u16
hiword(x) == as_u32(x)[2] % 65536

\* Whether handle h names a control that exists.
IsLive(e, h) == h = "HEDIT" /\ e.exists = "live"

\* A call on the control and whether its handle was live when it was made.
Op(name, e, h) == [op |-> name, handle |-> h, live |-> IsLive(e, h)]

\* The calls fail, and change nothing, on a handle that is not live.
SetWindowTextW(e, h, s) == IF IsLive(e, h) THEN [e EXCEPT !.text = s] ELSE e

SetFont(e, h) == IF IsLive(e, h) THEN [e EXCEPT !.font = TRUE] ELSE e

MoveWindow(e, h, X, Y, width, height) ==
    IF IsLive(e, h) THEN [e EXCEPT !.x = X, !.y = Y, !.w = width, !.h = height] ELSE e

DestroyWindow(e, h) == IF IsLive(e, h) THEN [e EXCEPT !.exists = "destroyed"] ELSE e

Prompt == <<"DRAG AND DROP HERE!!">>

\* Mutant of ErrorText: the description alone.
ErrorText_NoPrefix(e) == e.text

\* format!("ERROR: {e}")
ErrorText(e) == <<"ERROR: ">> \o e.text

\* Mutant of get_app_from_window: Some(app) whatever the slot holds.
get_app_from_window_Always == userdata \in {"null", "app"}

\* get_app_from_window: Some(app) once WM_CREATE has stored the pointer.
get_app_from_window == userdata = "app"

\* The record of a call of wndproc: the message, whether the App was found,
\* the files get_png_metadata was called on and what it returned last, the
\* calls made on the control, and whether DefWindowProcW was called. tick
\* flips at every call.
Called(m, some, x, r, ops, def) ==
    [tick |-> ~last.tick, msg |-> m, some |-> some, extracted |-> x, result |-> r,
     ops |-> ops, defproc |-> def]

----------------------------------------------------------------------------
(* wndproc, one definition per arm; m is the message *)

\* WM_CREATE. created: whether CreateWindowExW made the EDIT control.
OnCreate(m, created) ==
    LET hedit == IF created THEN "HEDIT" ELSE "NULL"
        e0 == IF created
              THEN [exists |-> "live", text |-> <<>>, x |-> 0, y |-> 0, w |-> 0, h |-> 0,
                    font |-> FALSE]
              ELSE edit
    IN  /\ userdata' = "app"
        /\ app' = [app EXCEPT !.hedit = hedit]
        /\ edit' = SetFont(SetWindowTextW(e0, hedit, Prompt), hedit)
        /\ hfont' = "allocated"
        /\ dropTarget' = TRUE
        /\ last' = Called(m, TRUE, <<>>, NoResult,
                          <<Op("SetWindowTextW", e0, hedit), Op("SendMessageW", e0, hedit)>>,
                          FALSE)
        /\ UNCHANGED quit

\* Mutant of OnSize: the control is moved whether or not the App is found.
OnSize_Unguarded(m) ==
    /\ edit' = MoveWindow(edit, app.hedit, 0, 0, loword(m.lparam), hiword(m.lparam))
    /\ last' = Called(m, get_app_from_window, <<>>, NoResult,
                      <<Op("MoveWindow", edit, app.hedit)>>, TRUE)
    /\ UNCHANGED <<userdata, app, hfont, dropTarget, quit>>

\* WM_SIZE
OnSize(m) ==
    /\ IF get_app_from_window
       THEN /\ edit' = MoveWindow(edit, app.hedit, 0, 0, loword(m.lparam), hiword(m.lparam))
            /\ last' = Called(m, TRUE, <<>>, NoResult,
                              <<Op("MoveWindow", edit, app.hedit)>>, TRUE)
       ELSE /\ edit' = edit
            /\ last' = Called(m, FALSE, <<>>, NoResult, <<>>, TRUE)
    /\ UNCHANGED <<userdata, app, hfont, dropTarget, quit>>

\* Mutant of OnDropFiles: a failure of get_png_metadata ends the program.
OnDropFiles_Fatal(m) ==
    LET n_files == Len(m.hdrop)
        filename == IF n_files > 0 THEN m.hdrop[1] ELSE NoFile
        r == get_png_metadata(filename)
    IN  /\ IF get_app_from_window /\ n_files > 0
           THEN /\ edit' = IF r.kind = "Ok" THEN SetWindowTextW(edit, app.hedit, r.text)
                                            ELSE edit
                /\ quit' = (quit \/ r.kind # "Ok")
                /\ last' = Called(m, TRUE, <<filename>>, r,
                                  IF r.kind = "Ok"
                                  THEN <<Op("SetWindowTextW", edit, app.hedit)>> ELSE <<>>,
                                  FALSE)
           ELSE /\ edit' = edit
                /\ quit' = quit
                /\ last' = Called(m, get_app_from_window, <<>>, NoResult, <<>>, FALSE)
        /\ UNCHANGED <<userdata, app, hfont, dropTarget>>

\* Mutant of OnDropFiles: the count of dropped files is not tested.
OnDropFiles_NoCount(m) ==
    LET n_files == Len(m.hdrop)
        filename == IF n_files > 0 THEN m.hdrop[1] ELSE NoFile
        r == get_png_metadata(filename)
        new_text == IF r.kind = "Ok" THEN r.text ELSE ErrorText(r)
    IN  /\ IF get_app_from_window
           THEN /\ edit' = SetWindowTextW(edit, app.hedit, new_text)
                /\ last' = Called(m, TRUE, <<filename>>, r,
                                  <<Op("SetWindowTextW", edit, app.hedit)>>, FALSE)
           ELSE /\ edit' = edit
                /\ last' = Called(m, FALSE, <<>>, NoResult, <<>>, FALSE)
        /\ UNCHANGED <<userdata, app, hfont, dropTarget, quit>>

\* Mutant of OnDropFiles: the file dropped last is the one read.
OnDropFiles_LastPath(m) ==
    LET n_files == Len(m.hdrop)
        filename == IF n_files > 0 THEN m.hdrop[n_files] ELSE NoFile
        r == get_png_metadata(filename)
        new_text == IF r.kind = "Ok" THEN r.text ELSE ErrorText(r)
    IN  /\ IF get_app_from_window /\ n_files > 0
           THEN /\ edit' = SetWindowTextW(edit, app.hedit, new_text)
                /\ last' = Called(m, TRUE, <<filename>>, r,
                                  <<Op("SetWindowTextW", edit, app.hedit)>>, FALSE)
           ELSE /\ edit' = edit
                /\ last' = Called(m, get_app_from_window, <<>>, NoResult, <<>>, FALSE)
        /\ UNCHANGED <<userdata, app, hfont, dropTarget, quit>>

\* WM_DROPFILES
OnDropFiles(m) ==
    LET n_files == Len(m.hdrop)
        filename == IF n_files > 0 THEN m.hdrop[1] ELSE NoFile
        r == get_png_metadata(filename)
        new_text == IF r.kind = "Ok" THEN r.text ELSE ErrorText(r)
    IN  /\ IF get_app_from_window /\ n_files > 0
           THEN /\ edit' = SetWindowTextW(edit, app.hedit, new_text)
                /\ last' = Called(m, TRUE, <<filename>>, r,
                                  <<Op("SetWindowTextW", edit, app.hedit)>>, FALSE)
           ELSE /\ edit' = edit
                /\ last' = Called(m, get_app_from_window, <<>>, NoResult, <<>>, FALSE)
        /\ UNCHANGED <<userdata, app, hfont, dropTarget, quit>>

\* Mutant of OnDestroy: the quit is not posted.
OnDestroy_NoQuit(m) ==
    /\ IF get_app_from_window
       THEN /\ edit' = DestroyWindow(edit, app.hedit)
            /\ last' = Called(m, TRUE, <<>>, NoResult,
                              <<Op("DestroyWindow", edit, app.hedit)>>, FALSE)
       ELSE /\ edit' = edit
            /\ last' = Called(m, FALSE, <<>>, NoResult, <<>>, FALSE)
    /\ UNCHANGED <<userdata, app, hfont, dropTarget, quit>>

\* Mutant of OnDestroy: the App's handle is reset once the control is destroyed.
OnDestroy_ClearsHandle(m) ==
    /\ IF get_app_from_window
       THEN /\ edit' = DestroyWindow(edit, app.hedit)
            /\ last' = Called(m, TRUE, <<>>, NoResult,
                              <<Op("DestroyWindow", edit, app.hedit)>>, FALSE)
       ELSE /\ edit' = edit
            /\ last' = Called(m, FALSE, <<>>, NoResult, <<>>, FALSE)
    /\ app' = [app EXCEPT !.hedit = "NULL"]
    /\ quit' = TRUE
    /\ UNCHANGED <<userdata, hfont, dropTarget>>

\* Mutant of OnDestroy: the quit is posted only where the App is found.
OnDestroy_QuitIfApp(m) ==
    /\ IF get_app_from_window
       THEN /\ edit' = DestroyWindow(edit, app.hedit)
            /\ last' = Called(m, TRUE, <<>>, NoResult,
                              <<Op("DestroyWindow", edit, app.hedit)>>, FALSE)
       ELSE /\ edit' = edit
            /\ last' = Called(m, FALSE, <<>>, NoResult, <<>>, FALSE)
    /\ quit' = (quit \/ get_app_from_window)
    /\ UNCHANGED <<userdata, app, hfont, dropTarget>>

\* WM_DESTROY
OnDestroy(m) ==
    /\ IF get_app_from_window
       THEN /\ edit' = DestroyWindow(edit, app.hedit)
            /\ last' = Called(m, TRUE, <<>>, NoResult,
                              <<Op("DestroyWindow", edit, app.hedit)>>, FALSE)
       ELSE /\ edit' = edit
            /\ last' = Called(m, FALSE, <<>>, NoResult, <<>>, FALSE)
    /\ quit' = TRUE
    /\ UNCHANGED <<userdata, app, hfont, dropTarget>>

\* Mutant of OnOther: the message is answered without DefWindowProcW.
OnOther_NotForwarded(m) ==
    /\ last' = Called(m, FALSE, <<>>, NoResult, <<>>, FALSE)
    /\ UNCHANGED <<userdata, app, edit, hfont, dropTarget, quit>>

\* Any other message: DefWindowProcW.
OnOther(m) ==
    /\ last' = Called(m, FALSE, <<>>, NoResult, <<>>, TRUE)
    /\ UNCHANGED <<userdata, app, edit, hfont, dropTarget, quit>>

wndproc(m) ==
    IF m.message = "WM_CREATE" THEN \E created \in BOOLEAN : OnCreate(m, created)
    ELSE IF m.message = "WM_SIZE" THEN OnSize(m)
    ELSE IF m.message = "WM_DROPFILES" THEN OnDropFiles(m)
    ELSE IF m.message = "WM_DESTROY" THEN OnDestroy(m)
    ELSE OnOther(m)

----------------------------------------------------------------------------
(* main, create_window, main_loop and the platform *)

\* create_window returns an error: GetModuleHandleW, LoadCursorW or
\* RegisterClassExW failed. main returns it.
StartupFails ==
    /\ pc = "start"
    /\ pc' = "exit_err"
    /\ UNCHANGED <<file, result, hwnd, userdata, app, edit, hfont, dropTarget,
                   queue, quit, last>>

\* CreateWindowExW makes no window. Its result is dropped: create_window
\* returns Ok(()) and main enters main_loop.
CreateWindowFails ==
    /\ pc = "start"
    /\ pc' = "loop"
    /\ UNCHANGED <<file, result, hwnd, userdata, app, edit, hfont, dropTarget,
                   queue, quit, last>>

\* CreateWindowExW makes the window and starts to send it messages.
CreateWindowBegins ==
    /\ pc = "start"
    /\ pc' = "creating"
    /\ hwnd' = "valid"
    /\ UNCHANGED <<file, result, userdata, app, edit, hfont, dropTarget,
                   queue, quit, last>>

\* The platform sends WM_CREATE, once, from within CreateWindowExW.
SendCreate ==
    /\ pc = "creating"
    /\ hwnd = "valid"
    /\ userdata = "null"
    /\ wndproc(CreateMsg)
    /\ UNCHANGED <<file, result, pc, hwnd, queue>>

\* CreateWindowExW returns and so does create_window, with Ok(()).
CreateWindowReturns ==
    /\ pc = "creating"
    /\ userdata = "app" \/ hwnd # "valid"
    /\ pc' = "loop"
    /\ UNCHANGED <<file, result, hwnd, userdata, app, edit, hfont, dropTarget,
                   queue, quit, last>>

\* The platform sends a message: it calls wndproc from within CreateWindowExW
\* or GetMessageW.
Send ==
    /\ pc \in {"creating", "loop"}
    /\ hwnd \in {"valid", "destroying"}
    /\ \E m \in Messages : wndproc(m)
    /\ UNCHANGED <<file, result, pc, hwnd, queue>>

\* The window is being destroyed: the platform sends WM_DESTROY, once.
SendDestroy ==
    /\ pc \in {"creating", "loop"}
    /\ hwnd = "valid"
    /\ wndproc(DestroyMsg)
    /\ hwnd' = "destroying"
    /\ UNCHANGED <<file, result, pc, queue>>

\* The platform ends the destruction: WM_NCDESTROY is sent, the handle
\* becomes invalid and the messages posted to the window are flushed.
NcDestroy ==
    /\ pc \in {"creating", "loop"}
    /\ hwnd = "destroying"
    /\ wndproc(OtherMsg)
    /\ hwnd' = "gone"
    /\ queue' = <<>>
    /\ UNCHANGED <<file, result, pc>>

\* A message is posted to the window.
Post ==
    /\ pc \in {"creating", "loop"}
    /\ hwnd \in {"valid", "destroying"}
    /\ Len(queue) < MaxQueue
    /\ \E m \in PostedMessages : queue' = Append(queue, m)
    /\ UNCHANGED <<file, result, pc, hwnd, userdata, app, edit, hfont, dropTarget,
                   quit, last>>

\* Mutant of LoopDispatch: the message posted last is taken first.
LoopDispatch_Lifo ==
    /\ pc = "loop"
    /\ queue # <<>>
    /\ wndproc(queue[Len(queue)])
    /\ queue' = SubSeq(queue, 1, Len(queue) - 1)
    /\ UNCHANGED <<file, result, pc, hwnd>>

\* main_loop, GetMessageW returns a message (ret > 0): it is dispatched.
LoopDispatch ==
    /\ pc = "loop"
    /\ queue # <<>>
    /\ wndproc(Head(queue))
    /\ queue' = Tail(queue)
    /\ UNCHANGED <<file, result, pc, hwnd>>

\* main_loop, GetMessageW returns 0: WM_QUIT, which the platform hands out
\* once the quit is posted and the queue is empty.
LoopQuit ==
    /\ pc = "loop"
    /\ queue = <<>>
    /\ quit
    /\ pc' = "exit_ok"
    /\ UNCHANGED <<file, result, hwnd, userdata, app, edit, hfont, dropTarget,
                   queue, quit, last>>

\* main_loop, GetMessageW returns -1.
LoopFails ==
    /\ pc = "loop"
    /\ pc' = "exit_err"
    /\ UNCHANGED <<file, result, hwnd, userdata, app, edit, hfont, dropTarget,
                   queue, quit, last>>

Init ==
    /\ file = NoFile
    /\ result = NoResult
    /\ InitWin

\* Every step but a failure of GetMessageW.
NextDelivered ==
    \/ StartupFails
    \/ CreateWindowFails
    \/ CreateWindowBegins
    \/ SendCreate
    \/ CreateWindowReturns
    \/ Send
    \/ SendDestroy
    \/ NcDestroy
    \/ Post
    \/ LoopDispatch
    \/ LoopQuit

Next == NextDelivered \/ LoopFails

Spec == Init /\ [][Next]_vars

\* The thread runs and the platform delivers: CreateWindowExW returns, the
\* loop takes the next message or the quit, a destruction that has begun
\* ends, and GetMessageW does not fail.
FairSpec ==
    /\ Init
    /\ [][NextDelivered]_vars
    /\ WF_vars(CreateWindowReturns)
    /\ WF_vars(NcDestroy)
    /\ WF_vars(LoopDispatch)
    /\ WF_vars(LoopQuit)

\* The state of the window controller.
ControllerState ==
    IF hwnd \in {"destroying", "gone"} THEN "Closed"
    ELSE IF userdata = "null" THEN "Uninitialized"
    ELSE IF IsLive(edit, app.hedit) THEN "Ready"
    ELSE "Failed"

----------------------------------------------------------------------------
(* Properties *)

\* A step in which wndproc is called.
Handled == last'.tick # last.tick

\* What a drop of file f is to show.
Shown(f) ==
    IF get_png_metadata(f).kind = "Ok" THEN get_png_metadata(f).text
    ELSE <<"ERROR: ">> \o get_png_metadata(f).text

\* A drop of at least one path is handled with the controller Ready.
DropInReady ==
    /\ Handled
    /\ last'.msg.message = "WM_DROPFILES"
    /\ Len(last'.msg.hdrop) >= 1
    /\ ControllerState = "Ready"

\* C1: a drop of at least one path handled in state Ready leaves as displayed
\* text the report of the first path when its extraction succeeds (blank for
\* the empty report) and the line "ERROR: " + description when it fails.
C1_DropShowsResult ==
    [][DropInReady =>
         /\ edit'.text = Shown(last'.msg.hdrop[1])
         /\ get_png_metadata(last'.msg.hdrop[1]) = Ok(<<>>) => edit'.text = <<>>
         /\ get_png_metadata(last'.msg.hdrop[1]).kind # "Ok" =>
                /\ Len(edit'.text) = 1 + Len(get_png_metadata(last'.msg.hdrop[1]).text)
                /\ edit'.text[1] = "ERROR: "]_vars

\* C1 witness: a drop of a file with a text chunk has been handled in Ready
\* and the control shows its report.
C1_Witness ==
    /\ ControllerState = "Ready"
    /\ last.msg.message = "WM_DROPFILES"
    /\ last.result.kind = "Ok"
    /\ last.result.text # <<>>
    /\ edit.text = last.result.text

IsText(c) == c.type = "tEXt"

\* A well-formed container: a good signature, no malformed chunk, image data.
WellFormed(f) ==
    /\ f.status = "ok"
    /\ f.sigOk
    /\ \A i \in 1..Len(f.chunks) : f.chunks[i].type # "BAD"
    /\ \E i \in 1..Len(f.chunks) : f.chunks[i].type = "IDAT"

\* The block of a chunk as the interface describes it.
Block(c) ==
    <<"[[">> \o c.keyword \o <<"]]", "CR", "LF">> \o replace(c.text)
        \o <<"CR", "LF", "CR", "LF">>

RECURSIVE Blocks(_)
Blocks(cs) == IF cs = <<>> THEN <<>> ELSE Block(Head(cs)) \o Blocks(Tail(cs))

\* C2: for a well-formed container, extract returns the blocks of all its
\* tEXt chunks, wherever they are in the file, in file order and with nothing
\* between them; the empty string, as a success, when it has none.
C2_AllTextChunks ==
    (result # NoResult /\ WellFormed(file)) =>
        result = Ok(Blocks(SelectSeq(file.chunks, IsText)))

\* Every line feed of s follows a carriage return.
IsNormalized(s) ==
    \A i \in 1..Len(s) : s[i] = "LF" => (i > 1 /\ s[i - 1] = "CR")

\* The text part of the report of a file of TextFiles.
Body(f, r) == SubSeq(r.text, Len(f.chunks[1].keyword) + 5, Len(r.text) - 4)

\* C3: in the report every line feed of the chunk's text follows a carriage
\* return, and a text that is already normalized is reported unchanged.
C3_NormalizeIdempotent ==
    result # NoResult =>
        /\ result.kind = "Ok"
        /\ IsNormalized(Body(file, result))
        /\ IsNormalized(file.chunks[1].text) => Body(file, result) = file.chunks[1].text

\* The chunks before the first IDAT chunk (all of them when there is none).
RECURSIVE BeforeImage(_)
BeforeImage(cs) ==
    IF cs = <<>> \/ Head(cs).type = "IDAT" THEN <<>>
    ELSE <<Head(cs)>> \o BeforeImage(Tail(cs))

\* The file fails a parse step: the signature, a malformed chunk among those
\* read, or the end of the file before the image data.
FailsParse(f) ==
    \/ ~f.sigOk
    \/ \E i \in 1..Len(BeforeImage(f.chunks)) : f.chunks[i].type = "BAD"
    \/ \A i \in 1..Len(f.chunks) : f.chunks[i].type # "IDAT"

C5_IoError ==
    [][(DropInReady /\ last'.msg.hdrop[1].status # "ok") =>
         /\ last'.extracted = <<last'.msg.hdrop[1]>>
         /\ last'.result.kind = "Io"
         /\ edit'.text = <<"ERROR: ">> \o last'.result.text]_vars

\* C5 witness: the control shows the Io error of a dropped path.
C5_Witness ==
    /\ ControllerState = "Ready"
    /\ last.msg.message = "WM_DROPFILES"
    /\ last.extracted = <<MissingFile>>
    /\ last.result = Err("Io", <<"NotFound">>)
    /\ edit.text = <<"ERROR: ", "NotFound">>

\* C6: a drop whose extraction fails leaves the program running and the
\* controller Ready, calls extract once, and the drop that follows it is
\* handled as any other.
C6_FailureRecovered ==
    [][/\ (DropInReady /\ get_png_metadata(last'.msg.hdrop[1]).kind \in {"Io", "Format"}) =>
            /\ ControllerState' = "Ready"
            /\ Len(last'.extracted) = 1
            /\ <<pc, hwnd, userdata, app, quit>>' = <<pc, hwnd, userdata, app, quit>>
       /\ (DropInReady /\ last.msg.message = "WM_DROPFILES"
             /\ last.result.kind \in {"Io", "Format"}) =>
            /\ Len(last'.extracted) = 1
            /\ edit'.text = Shown(last'.msg.hdrop[1])]_vars

\* C6 witness: after a failed drop the controller is Ready and the loop runs.
C6_Witness ==
    /\ ControllerState = "Ready"
    /\ pc = "loop"
    /\ ~quit
    /\ last.msg.message = "WM_DROPFILES"
    /\ last.result.kind = "Format"
    /\ Len(last.extracted) = 1

Rank(st) == IF st = "Uninitialized" THEN 0 ELSE IF st = "Closed" THEN 2 ELSE 1

\* C7: the controller's state never goes back, and a resize or a drop that
\* wndproc is called with after the destroy event was handled in Ready calls
\* nothing on the control and does not call extract.
C7_NoEventAfterClosed ==
    [][/\ Rank(ControllerState') >= Rank(ControllerState)
       /\ (Handled /\ ControllerState = "Closed" /\ edit.exists = "destroyed"
             /\ last'.msg.message \in {"WM_SIZE", "WM_DROPFILES"}) =>
            /\ last'.ops = <<>>
            /\ last'.extracted = <<>>]_vars

\* C8: App.hedit is null before WM_CREATE is handled and names a live control
\* from then on while the window lives; a resize or a drop that uses it uses
\* a live control.
C8_HandleLive ==
    /\ userdata = "null" => app.hedit = "NULL"
    /\ (userdata = "app" /\ hwnd = "valid") => IsLive(edit, app.hedit)
    /\ last.msg.message \in {"WM_SIZE", "WM_DROPFILES"} =>
           \A i \in 1..Len(last.ops) : last.ops[i].live

\* C9: when no EDIT control or no window could be created the controller is
\* not Ready, main_loop is not entered and main returns an error.
C9_CreationFailureFatal ==
    ((userdata = "app" /\ edit.exists = "none") \/ (hwnd = "none" /\ pc # "start")) =>
        /\ ControllerState # "Ready"
        /\ pc \in {"creating", "exit_err"}

\* C10: a destroy event handled in Ready destroys the control and posts the
\* quit; once the quit is posted main_loop returns Ok; wndproc is not called
\* after main_loop has returned.
C10_DestroyQuits ==
    /\ [][(Handled /\ last'.msg.message = "WM_DESTROY" /\ ControllerState = "Ready") =>
            /\ edit'.exists = "destroyed"
            /\ quit'
            /\ ControllerState' = "Closed"]_vars
    /\ [][(pc \in {"exit_ok", "exit_err"}) => (last' = last)]_vars
    /\ quit ~> (pc = "exit_ok")

\* C10 witness: main_loop has returned Ok after the destroy event was handled
\* in Ready.
C10_Witness ==
    /\ pc = "exit_ok"
    /\ quit
    /\ edit.exists = "destroyed"
    /\ hwnd \in {"destroying", "gone"}


----------------------------------------------------------------------------
(* main_loop *)

\* A step of main_loop that takes a message off the queue. (The flush at the
\* end of a destruction also shortens the queue, and invalidates the handle.)
Retrieved == pc = "loop" /\ hwnd' = hwnd /\ Len(queue') < Len(queue)

\* C11: an iteration of main_loop has one of three outcomes. The loop is
\* left only for a successful exit, on the quit with nothing left to
\* dispatch, or for a fatal exit, and neither calls the window procedure;
\* a successful exit comes from the loop alone and an exit is final. Any
\* message retrieved is the oldest one posted, is removed from the queue
\* and dispatched to the window procedure in one call, and the loop goes on.
C11_LoopOutcomes ==
    [][/\ (pc = "loop" /\ pc' # "loop") =>
              /\ pc' \in {"exit_ok", "exit_err"}
              /\ pc' = "exit_ok" => (quit /\ queue = <<>>)
              /\ <<last, queue, quit, edit, app, userdata, hwnd>>' =
                     <<last, queue, quit, edit, app, userdata, hwnd>>
       /\ (pc' = "exit_ok") => (pc \in {"loop", "exit_ok"})
       /\ (pc \in {"exit_ok", "exit_err"}) => (pc' = pc)
       /\ Retrieved =>
              /\ Handled
              /\ last'.msg = Head(queue)
              /\ queue' = Tail(queue)
              /\ pc' = "loop"]_vars

\* Two messages were posted and the loop has dispatched the older one: the
\* younger one is still queued.
C11_Witness ==
    /\ pc = "loop"
    /\ Len(queue) = 1
    /\ last.msg \in PostedMessages
    /\ last.msg # queue[1]
    /\ last.msg.message = "WM_DROPFILES"
    /\ last.extracted = <<last.msg.hdrop[1]>>

----------------------------------------------------------------------------
(* Messages handled before WM_CREATE, and the other arms of wndproc *)

\* The window, the App, the control and the thread are as they were.
Untouched ==
    <<pc, hwnd, userdata, app, edit, hfont, dropTarget, quit>>' =
        <<pc, hwnd, userdata, app, edit, hfont, dropTarget, quit>>

\* C12: a WM_SIZE handled while the controller is Uninitialized (the App is
\* not attached to the window yet) makes no call on any control, changes
\* neither the App nor the control nor the window, and raises no failure:
\* it is only passed on to DefWindowProcW and the thread goes on.
C12_ResizeUninitialized ==
    [][(Handled /\ last'.msg.message = "WM_SIZE" /\ ControllerState = "Uninitialized") =>
           /\ last'.ops = <<>>
           /\ ~last'.some
           /\ last'.defproc
           /\ last'.extracted = <<>>
           /\ Untouched]_vars

\* A WM_SIZE of a nonzero size has been handled before WM_CREATE.
C12_Witness ==
    /\ pc = "creating"
    /\ hwnd = "valid"
    /\ userdata = "null"
    /\ last.msg.message = "WM_SIZE"
    /\ loword(last.msg.lparam) > 0
    /\ last.ops = <<>>
    /\ edit.exists = "none"

\* C13: a WM_DROPFILES whose payload holds no path changes nothing, in any
\* state of the controller: get_png_metadata is not called, no call is made
\* on the control, whose text stays, and the controller's state, the App
\* and its handle are as before.
C13_EmptyDrop ==
    [][(Handled /\ last'.msg.message = "WM_DROPFILES" /\ Len(last'.msg.hdrop) = 0) =>
           /\ last'.extracted = <<>>
           /\ last'.result = NoResult
           /\ last'.ops = <<>>
           /\ edit'.text = edit.text
           /\ ControllerState' = ControllerState
           /\ Untouched]_vars

\* An empty drop has been handled in Ready, after a drop whose report is
\* still shown.
C13_Witness ==
    /\ ControllerState = "Ready"
    /\ last.msg.message = "WM_DROPFILES"
    /\ last.msg.hdrop = <<>>
    /\ last.some
    /\ last.extracted = <<>>
    /\ edit.text \notin {<<>>, Prompt}

\* Nothing but the text of the control may have changed.
OnlyTextChanged ==
    /\ <<pc, hwnd, userdata, app, hfont, dropTarget, quit>>' =
           <<pc, hwnd, userdata, app, hfont, dropTarget, quit>>
    /\ edit' = [edit EXCEPT !.text = edit'.text]

\* C14: a WM_DROPFILES with one path or more, handled once the App is
\* attached, calls get_png_metadata once, on the first path alone, and what
\* it leaves behind is a function of the state before and of that first
\* path: the text set on the control is the report of the first path, and
\* nothing else changes. Two drops that agree on their first path hence
\* leave the same text and the same state, whatever paths follow.
C14_FirstPathOnly ==
    [][(/\ Handled
        /\ last'.msg.message = "WM_DROPFILES"
        /\ Len(last'.msg.hdrop) >= 1
        /\ userdata = "app") =>
           LET first == last'.msg.hdrop[1]
           IN  /\ last'.extracted = <<first>>
               /\ last'.result = get_png_metadata(first)
               /\ edit' = SetWindowTextW(edit, app.hedit, Shown(first))
               /\ Len(last'.ops) = 1
               /\ OnlyTextChanged]_vars

\* A drop of two files whose reports differ has been handled in Ready: the
\* control shows the report of the first one.
C14_Witness ==
    /\ ControllerState = "Ready"
    /\ last.msg.message = "WM_DROPFILES"
    /\ Len(last.msg.hdrop) = 2
    /\ Shown(last.msg.hdrop[1]) # Shown(last.msg.hdrop[2])
    /\ last.extracted = <<last.msg.hdrop[1]>>
    /\ edit.text = Shown(last.msg.hdrop[1])

----------------------------------------------------------------------------
(* Resources *)

\* C15: what a handler acquired is released: once the controller is Closed
\* (WM_DESTROY has been handled) the font made by CreateFontW at WM_CREATE
\* is no longer allocated and the EDIT control no longer exists. (The file
\* opened by get_png_metadata is owned by the decoder, a local that is
\* dropped on every return; the function is modelled by its value.) The
\* font is asked about where the control was made and has been released.
C15_ResourcesReleased ==
    ControllerState = "Closed" =>
        /\ edit.exists # "live"
        /\ edit.exists = "destroyed" => hfont # "allocated"

----------------------------------------------------------------------------
(* The arms of wndproc and the App *)

C17_HandleWrittenAtCreate ==
    [][/\ (app' # app) => (Handled /\ last'.msg.message = "WM_CREATE")
       /\ (Handled /\ last'.msg.message \in {"WM_SIZE", "WM_DROPFILES", "WM_DESTROY"}) =>
              /\ app'.hedit = app.hedit
              /\ last'.some = (userdata = "app")
              /\ \A i \in 1..Len(last'.ops) : last'.ops[i].handle = app.hedit]_vars

\* WM_DESTROY has been handled with the App attached: the control is
\* destroyed and the App still holds its handle.
C17_Witness ==
    /\ last.msg.message = "WM_DESTROY"
    /\ last.some
    /\ Len(last.ops) = 1
    /\ edit.exists = "destroyed"
    /\ app.hedit = "HEDIT"

----------------------------------------------------------------------------
(* WM_SIZE *)

\* C18: a WM_SIZE handled in Ready moves the control to the origin (0, 0)
\* with a width that is the lowest 16-bit word of the LPARAM and a height
\* that is its second word, both unsigned (0..65535), whatever the two upper
\* words hold; nothing else of the control changes.
C18_ResizeFromPayload ==
    [][(Handled /\ last'.msg.message = "WM_SIZE" /\ ControllerState = "Ready") =>
           /\ edit'.x = 0
           /\ edit'.y = 0
           /\ edit'.w = last'.msg.lparam[1]
           /\ edit'.h = last'.msg.lparam[2]
           /\ edit'.w \in 0..65535
           /\ edit'.h \in 0..65535
           /\ edit' = [edit EXCEPT !.x = 0, !.y = 0, !.w = edit'.w, !.h = edit'.h]
           /\ last'.defproc]_vars

\* A WM_SIZE whose LPARAM has both low words at 65535 and a nonzero upper
\* half has been handled in Ready.
C18_Witness ==
    /\ ControllerState = "Ready"
    /\ last.msg.message = "WM_SIZE"
    /\ last.msg.lparam = <<65535, 65535, 1, 0>>
    /\ edit.w = 65535
    /\ edit.h = 65535
    /\ edit.x = 0

----------------------------------------------------------------------------
(* WM_DROPFILES and WM_DESTROY before WM_CREATE *)

\* C19: a WM_DROPFILES handled while the controller is Uninitialized, with
\* any number of paths, does not call get_png_metadata, makes no call on
\* any control and changes nothing: the App is not found and the arm
\* returns.
C19_DropUninitialized ==
    [][(Handled /\ last'.msg.message = "WM_DROPFILES" /\ ControllerState = "Uninitialized") =>
           /\ ~last'.some
           /\ last'.extracted = <<>>
           /\ last'.result = NoResult
           /\ last'.ops = <<>>
           /\ ~last'.defproc
           /\ Untouched]_vars

\* A drop of two files, the first a PNG file with a text chunk, has been
\* handled before WM_CREATE.
C19_Witness ==
    /\ pc = "creating"
    /\ hwnd = "valid"
    /\ userdata = "null"
    /\ last.msg.message = "WM_DROPFILES"
    /\ Len(last.msg.hdrop) = 2
    /\ last.msg.hdrop[1] = TitlePng
    /\ last.extracted = <<>>
    /\ edit.exists = "none"

\* WM_DESTROY was handled while the App was not attached.
DestroyedUninitialized ==
    /\ last.msg.message = "WM_DESTROY"
    /\ ~last.some
    /\ userdata = "null"

\* C20: every WM_DESTROY that is handled posts the quit, in whatever state
\* of the controller. Handled while the controller is Uninitialized, it
\* makes no call on any control, DestroyWindow included, and changes nothing
\* but the quit flag; and from then on main_loop eventually returns Ok(()),
\* given that GetMessageW does not fail.
C20_DestroyAlwaysQuits ==
    /\ [][(Handled /\ last'.msg.message = "WM_DESTROY") => quit']_vars
    /\ [][(Handled /\ last'.msg.message = "WM_DESTROY" /\ ControllerState = "Uninitialized") =>
              /\ last'.ops = <<>>
              /\ ~last'.some
              /\ <<userdata, app, edit, hfont, dropTarget, pc>>' =
                     <<userdata, app, edit, hfont, dropTarget, pc>>
              /\ DestroyedUninitialized']_vars
    /\ DestroyedUninitialized ~> (pc = "exit_ok")

\* The window was destroyed before WM_CREATE and main_loop has returned
\* Ok(()): there never was a control.
C20_Witness ==
    /\ pc = "exit_ok"
    /\ quit
    /\ userdata = "null"
    /\ edit.exists = "none"
    /\ hwnd = "gone"
    /\ hfont = "none"

====
